---- MODULE Spec2Model ----
(***************************************************************************)
(* Heuristic face / gender pipeline of src/main.cpp: SimpleFaceDetector,   *)
(* SimpleGenderClassifier, ConsoleDisplay and the menu loop of main.       *)
(*                                                                         *)
(* Numbers.  The code computes its features and scores in double.  Here a  *)
(* double is an integer number of hundredths, and a quotient is rounded up *)
(* to the next hundredth.  Every threshold the code compares against (120, *)
(* 200, 0.3, 0.1, 0.5, 100) is a multiple of 1/100, so v > t holds of the  *)
(* exact quotient exactly when it holds of the rounded-up one.  NaN (0/0)  *)
(* is a separate value that compares false with everything.                *)
(***************************************************************************)
EXTENDS Integers, Sequences, FiniteSets, TLC

VARIABLES
  pc,             \* position of the program
  isInitialized,  \* CameraCapture::isInitialized
  image,          \* the SimpleImage being processed: its size and how it was painted
  faces,          \* vector<FaceRect> faces
  results,        \* vector<GenderResult> results
  features,       \* vector<double> features handed to calculateMaleScore
  maleScore,      \* the score calculateMaleScore returned, in hundredths
  edges,          \* edgeCount and totalPixels of getEdgeDensity at its return
  choice,         \* int choice, as read from cin
  i,              \* the loop index of displayResults
  printed,        \* the indices whose per-face block displayResults printed, in order
  reads,          \* the subscripts displayResults applied to faces and results
  out,            \* the console lines written in the current menu iteration
  scan,           \* findFaceCandidates: windows scanned, counts of the last hasSkinColor
  tone            \* rSum, gSum, bSum and pixelCount of getSkinToneFeature at its return

vars == <<pc, isInitialized, image, faces, results, features, maleScore,
          edges, choice, i, printed, reads, out, scan, tone>>

----------------------------------------------------------------------------
(* Arithmetic helpers *)

Min(a, b) == IF a < b THEN a ELSE b
Max(a, b) == IF a > b THEN a ELSE b
Abs(a) == IF a < 0 THEN -a ELSE a
CeilDiv(a, b) == -((-a) \div b)

\* A std::vector holding f[1] .. f[n]
Vector(f, n) == IF n <= 0 THEN <<>> ELSE SubSeq(f, 1, n)

\* v[lo] + .. + v[hi] and v[lo]^2 + .. + v[hi]^2
RECURSIVE Sum(_, _, _)
Sum(v, lo, hi) ==
  IF lo > hi THEN 0
  ELSE IF lo = hi THEN v[lo]
  ELSE LET mid == (lo + hi) \div 2 IN Sum(v, lo, mid) + Sum(v, mid + 1, hi)

RECURSIVE SumSq(_, _, _)
SumSq(v, lo, hi) ==
  IF lo > hi THEN 0
  ELSE IF lo = hi THEN v[lo] * v[lo]
  ELSE LET mid == (lo + hi) \div 2 IN SumSq(v, lo, mid) + SumSq(v, mid + 1, hi)

\* A double: a number of hundredths, or NaN
Num(h) == [nan |-> FALSE, v |-> h]
NaN == [nan |-> TRUE, v |-> 0]
\* C++ operator> on doubles: false when either side is NaN
Gt(a, b) == ~a.nan /\ ~b.nan /\ a.v > b.v

\* n > 0 values with sum s1 and sum of squares s2: their population variance
\* divided by d, in hundredths, rounded up.  The products are split so that no
\* intermediate value leaves 32 bits for n <= 3600 and values <= 765.
VarianceOver(n, s1, s2, d) ==
  LET q == s1 \div n
      r == s1 % n
      A == s2 - q * q * n - 2 * q * r       \* n * variance = A - r*r/n
      m == n * d
      a1 == A \div m
      a0 == A % m
  IN 100 * a1 + CeilDiv(100 * a0 - (100 * r * r) \div n, m)

----------------------------------------------------------------------------
(* struct RGB, struct SimpleImage *)

RGB(r, g, b) == [r |-> r, g |-> g, b |-> b]

\* SimpleImage(w, h): pixels.resize(w * h) value-initialises every pixel to 0.
\* pixels is row-major: the pixel at (x, y) is element y * width + x.
SimpleImage(w, h) ==
  [width |-> w, height |-> h, pixels |-> Vector([k \in 1..(w * h) |-> RGB(0, 0, 0)], w * h)]

getPixel(img, x, y) == img.pixels[y * img.width + x + 1]

\* What the loop pair
\*   for (y = y0; y < y0 + h && y < image.height; y++)
\*     for (x = x0; x < x0 + w && x < image.width; x++)
\* visits: cols * rows pixels, row by row
Visited(img, x0, y0, w, h) ==
  [x |-> x0, y |-> y0,
   cols |-> Max(Min(x0 + w, img.width) - x0, 0),
   rows |-> Max(Min(y0 + h, img.height) - y0, 0)]

\* the k-th pixel the loops visit, k = 1 .. cols*rows
VisitedPixel(img, v, k) ==
  img.pixels[(v.y + ((k - 1) \div v.cols)) * img.width + v.x + ((k - 1) % v.cols) + 1]

----------------------------------------------------------------------------
(* class SimpleFaceDetector *)

WindowSize == 60
WindowStep == 10

FaceRect(x, y, w, h) == [x |-> x, y |-> y, width |-> w, height |-> h, confidence |-> 70]

isSkinColor(p) ==
  /\ p.r > 95 /\ p.g > 40 /\ p.b > 20
  /\ p.r > p.g /\ p.r > p.b
  /\ p.r - p.g > 15
  /\ Abs(p.r - p.g) > 15

\* skinPixels and totalPixels when the loops of hasSkinColor end
skinCounts(img, startX, startY, width, height) ==
  LET v == Visited(img, startX, startY, width, height)
      totalPixels == v.cols * v.rows
  IN [skinPixels |-> Cardinality({k \in 1..totalPixels : isSkinColor(VisitedPixel(img, v, k))}),
      totalPixels |-> totalPixels]

\* (double)skinPixels / totalPixels > 0.3; 0/0 is NaN, and NaN > 0.3 is false
skinFractionAbove30(c) == c.totalPixels > 0 /\ 10 * c.skinPixels > 3 * c.totalPixels

hasSkinColor(img, startX, startY, width, height) ==
  skinFractionAbove30(skinCounts(img, startX, startY, width, height))

\* the loop over the whole extent: for (v = 0; v < extent; v += 10)
WindowStarts_ToExtent(extent) ==
  LET n == IF extent <= 0 THEN 0 ELSE ((extent - 1) \div WindowStep) + 1
  IN [k \in 1..n |-> (k - 1) * WindowStep]

\* the values v takes in: for (v = 0; v < extent - 60; v += 10)
WindowStarts(extent) ==
  LET n == IF extent - WindowSize <= 0 THEN 0
           ELSE ((extent - WindowSize - 1) \div WindowStep) + 1
  IN [k \in 1..n |-> (k - 1) * WindowStep]

\* the windows in the order the loops visit them: y outer, x inner; they depend
\* on the width and the height of the image only
Windows(img) ==
  LET xs == WindowStarts(img.width)
      ys == WindowStarts(img.height)
      nx == Len(xs)
  IN [k \in 1..(nx * Len(ys)) |->
        FaceRect(xs[((k - 1) % nx) + 1], ys[((k - 1) \div nx) + 1], WindowSize, WindowSize)]

findFaceCandidates(img) ==
  SelectSeq(Windows(img), LAMBDA c : hasSkinColor(img, c.x, c.y, WindowSize, WindowSize))

intensity(p) == (p.r + p.g + p.b) \div 3

\* vector<int> intensities of a rectangle
Intensities(img, rect) ==
  LET v == Visited(img, rect.x, rect.y, rect.width, rect.height)
  IN Vector([k \in 1..(v.cols * v.rows) |-> intensity(VisitedPixel(img, v, k))], v.cols * v.rows)

\* population variance of the intensities, in hundredths
IntensityVariance(ints) ==
  VarianceOver(Len(ints), Sum(ints, 1, Len(ints)), SumSq(ints, 1, Len(ints)), 1)

\* hasVariation with its comparison reversed
hasVariation_Reversed(img, rect) ==
  LET intensities == Intensities(img, rect)
  IN IF Len(intensities) = 0 THEN FALSE
     ELSE IntensityVariance(intensities) < 100 * 100

hasVariation(img, rect) ==
  LET intensities == Intensities(img, rect)
  IN IF Len(intensities) = 0 THEN FALSE
     ELSE IntensityVariance(intensities) > 100 * 100

\* isLikelyFace with the aspect-ratio test inverted
isLikelyFace_InvertedAspect(img, rect) ==
  IF 10 * rect.width >= 7 * rect.height /\ 10 * rect.width <= 13 * rect.height
  THEN FALSE
  ELSE hasVariation(img, rect)

\* aspectRatio < 0.7 || aspectRatio > 1.3 rejects
isLikelyFace(img, rect) ==
  IF 10 * rect.width < 7 * rect.height \/ 10 * rect.width > 13 * rect.height
  THEN FALSE
  ELSE hasVariation(img, rect)

detectFaces(img) ==
  SelectSeq(findFaceCandidates(img), LAMBDA c : isLikelyFace(img, c))

----------------------------------------------------------------------------
(* class SimpleGenderClassifier *)

\* vector<int> of r + g + b over the rectangle: (r + g + b) / 3.0 is a third of it
ChannelSums(img, rect) ==
  LET v == Visited(img, rect.x, rect.y, rect.width, rect.height)
  IN Vector([k \in 1..(v.cols * v.rows) |->
               LET p == VisitedPixel(img, v, k) IN p.r + p.g + p.b], v.cols * v.rows)

\* vector of one channel ("r", "g" or "b") over the rectangle
ChannelOf(img, rect, channel) ==
  LET v == Visited(img, rect.x, rect.y, rect.width, rect.height)
  IN Vector([k \in 1..(v.cols * v.rows) |-> VisitedPixel(img, v, k)[channel]], v.cols * v.rows)

\* pixelCount > 0 ? totalBrightness / pixelCount : 0
getAverageBrightness(img, rect) ==
  LET s == ChannelSums(img, rect)
      pixelCount == Len(s)
  IN IF pixelCount > 0 THEN Num(CeilDiv(100 * Sum(s, 1, pixelCount), 3 * pixelCount))
     ELSE Num(0)

\* variance of (r + g + b) / 3.0: a ninth of the variance of r + g + b
getColorVariance(img, rect) ==
  LET s == ChannelSums(img, rect)
      n == Len(s)
  IN IF n = 0 THEN Num(0)
     ELSE Num(VarianceOver(n, Sum(s, 1, n), SumSq(s, 1, n), 9))

\* the loops of getEdgeDensity started at face.x and face.y
EdgeVisited_FromFirst(img, rect) ==
  {c \in (rect.x..(Min(rect.x + rect.width - 1, img.width - 1) - 1))
         \X (rect.y..(Min(rect.y + rect.height - 1, img.height - 1) - 1)) : TRUE}

\* the pixels (x, y) the two loops of getEdgeDensity visit
EdgeVisited(img, rect) ==
  {c \in ((rect.x + 1)..(Min(rect.x + rect.width - 1, img.width - 1) - 1))
         \X ((rect.y + 1)..(Min(rect.y + rect.height - 1, img.height - 1) - 1)) : TRUE}

gradient(img, x, y) ==
  LET centerGray == intensity(getPixel(img, x, y))
      rightGray == intensity(getPixel(img, x + 1, y))
      bottomGray == intensity(getPixel(img, x, y + 1))
  IN Abs(centerGray - rightGray) + Abs(centerGray - bottomGray)

\* edgeCount and totalPixels when the loops of getEdgeDensity end
edgeCounts(img, rect) ==
  LET visited == EdgeVisited(img, rect)
  IN [edgeCount |-> Cardinality({c \in visited : gradient(img, c[1], c[2]) > 30}),
      totalPixels |-> Cardinality(visited)]

\* totalPixels > 0 ? (double)edgeCount / totalPixels : 0
getEdgeDensity(img, rect) ==
  LET e == edgeCounts(img, rect)
  IN IF e.totalPixels > 0 THEN Num(CeilDiv(100 * e.edgeCount, e.totalPixels)) ELSE Num(0)

\* rSum, gSum, bSum and pixelCount when the loops of getSkinToneFeature end
toneSums(img, rect) ==
  LET rs == ChannelOf(img, rect, "r")
      gs == ChannelOf(img, rect, "g")
      bs == ChannelOf(img, rect, "b")
      pixelCount == Len(rs)
  IN [rSum |-> Sum(rs, 1, pixelCount), gSum |-> Sum(gs, 1, pixelCount),
      bSum |-> Sum(bs, 1, pixelCount), pixelCount |-> pixelCount]

\* (avgR - avgG) / (avgR + avgG + avgB); the averages share the divisor pixelCount.
\* A region of black pixels only gives 0.0 / 0.0, which is NaN.
getSkinToneFeature(img, rect) ==
  LET t == toneSums(img, rect)
  IN IF t.pixelCount = 0 THEN Num(0)
     ELSE IF t.rSum + t.gSum + t.bSum = 0 THEN NaN
     ELSE Num(CeilDiv(100 * (t.rSum - t.gSum), t.rSum + t.gSum + t.bSum))

extractFeatures(img, rect) ==
  << getAverageBrightness(img, rect),
     getColorVariance(img, rect),
     getEdgeDensity(img, rect),
     getSkinToneFeature(img, rect) >>

\* calculateMaleScore with the weights of variance and edge density exchanged
calculateMaleScore_SwappedWeights(f) ==
  IF Len(f) < 4 THEN 50
  ELSE LET s0 == 50
           s1 == IF Gt(f[1], Num(12000)) THEN s0 + 10 ELSE s0
           s2 == IF Gt(f[2], Num(20000)) THEN s1 + 20 ELSE s1
           s3 == IF Gt(f[3], Num(30)) THEN s2 + 15 ELSE s2
           s4 == IF Gt(f[4], Num(10)) THEN s3 + 10 ELSE s3
       IN Max(0, Min(100, s4))

\* calculateMaleScore returning the sum without the clamp
calculateMaleScore_NoClamp(f) ==
  IF Len(f) < 4 THEN 50
  ELSE LET s0 == 50
           s1 == IF Gt(f[1], Num(12000)) THEN s0 + 10 ELSE s0
           s2 == IF Gt(f[2], Num(20000)) THEN s1 + 15 ELSE s1
           s3 == IF Gt(f[3], Num(30)) THEN s2 + 20 ELSE s2
           s4 == IF Gt(f[4], Num(10)) THEN s3 + 10 ELSE s3
       IN s4

\* calculateMaleScore with the size test off by one
calculateMaleScore_SizeOffByOne(f) ==
  IF Len(f) <= 4 THEN 50
  ELSE LET s0 == 50
           s1 == IF Gt(f[1], Num(12000)) THEN s0 + 10 ELSE s0
           s2 == IF Gt(f[2], Num(20000)) THEN s1 + 15 ELSE s1
           s3 == IF Gt(f[3], Num(30)) THEN s2 + 20 ELSE s2
           s4 == IF Gt(f[4], Num(10)) THEN s3 + 10 ELSE s3
       IN Max(0, Min(100, s4))

\* The score in hundredths: 0.5 is 50, the weights 0.1, 0.15, 0.2, 0.1 are 10, 15, 20, 10
calculateMaleScore(f) ==
  IF Len(f) < 4 THEN 50
  ELSE LET s0 == 50
           s1 == IF Gt(f[1], Num(12000)) THEN s0 + 10 ELSE s0
           s2 == IF Gt(f[2], Num(20000)) THEN s1 + 15 ELSE s1
           s3 == IF Gt(f[3], Num(30)) THEN s2 + 20 ELSE s2
           s4 == IF Gt(f[4], Num(10)) THEN s3 + 10 ELSE s3
       IN Max(0, Min(100, s4))

\* GenderResult from the score (lines 179-188 of classifyGender)
GenderResult(score) ==
  IF score > 50 THEN [gender |-> "Male", confidence |-> score]
  ELSE [gender |-> "Female", confidence |-> 100 - score]

classifyGender(img, rect) == GenderResult(calculateMaleScore(extractFeatures(img, rect)))

----------------------------------------------------------------------------
(* Rasters: the frames of the program and the inputs of the detector *)

Black == RGB(0, 0, 0)
Grey == RGB(60, 60, 60)              \* not skin, intensity 60
Skin == RGB(220, 180, 140)           \* the colour main paints, intensity 180
SkinShade == RGB(180, 140, 100)      \* skin, intensity 140
SkinLow == RGB(100, 50, 30)          \* skin, intensity 60
SkinHigh == RGB(162, 112, 92)        \* skin, intensity 122
SkinDim == RGB(96, 41, 21)           \* the darkest colour isSkinColor accepts

InBlock(s, x, y) ==
  x >= s.bx /\ x < s.bx + s.bw /\ y >= s.by /\ y < s.by + s.bh

\* the 5x5 corners of the block
InCorner(s, x, y) ==
  /\ InBlock(s, x, y)
  /\ (x < s.bx + 5 \/ x >= s.bx + s.bw - 5)
  /\ (y < s.by + 5 \/ y >= s.by + s.bh - 5)

\* The pixel at (x, y) of an image painted as s says.  "solid": a block of one
\* skin colour on a background; "noisy": the block alternates two skin colours
\* pixel by pixel; "corner": the block is one skin colour but for its four
\* corners; "blank": the background only; "gradient": the pattern captureFrame
\* fills in; "dot": one grey pixel of level s.level at (s.bx, s.by) on black;
\* "sparse": one pixel in s.every is s.fg, along the diagonals, the rest is s.bg.
Paint(s, x, y) ==
  CASE s.kind = "gradient" -> RGB((x + y) % 256, (x * 2) % 256, (y * 2) % 256)
    [] s.kind = "dot" -> IF x = s.bx /\ y = s.by THEN RGB(s.level, s.level, s.level) ELSE Black
    [] s.kind = "blank" -> s.bg
    [] s.kind = "sparse" -> IF (x + y) % s.every = 0 THEN s.fg ELSE s.bg
    [] s.kind = "solid" -> IF InBlock(s, x, y) THEN Skin ELSE s.bg
    [] s.kind = "noisy" ->
         IF InBlock(s, x, y) THEN (IF (x + y) % 2 = 0 THEN Skin ELSE SkinShade) ELSE s.bg
    [] s.kind = "corner" ->
         IF InCorner(s, x, y) THEN SkinHigh ELSE IF InBlock(s, x, y) THEN SkinLow ELSE s.bg

\* the SimpleImage painted as s says
Render(s) ==
  [width |-> s.width, height |-> s.height,
   pixels |-> Vector([k \in 1..(s.width * s.height) |->
                        Paint(s, (k - 1) % s.width, (k - 1) \div s.width)],
                     s.width * s.height)]

Block(kind, w, h, bg, bx, by, bw, bh) ==
  [kind |-> kind, width |-> w, height |-> h, bg |-> bg,
   bx |-> bx, by |-> by, bw |-> bw, bh |-> bh]

\* main's test-mode image: SimpleImage testImage(320, 240) with the 80x80 block
testImage == Block("solid", 320, 240, Black, 120, 80, 80, 80)

\* the frame captureFrame returns when capGrabFrame succeeds
capturedFrame == [kind |-> "gradient", width |-> 320, height |-> 240]

\* SimpleImage(): no pixels
emptyImage == [kind |-> "blank", width |-> 0, height |-> 0, bg |-> Black]

testImagePixels == Render(testImage)
capturedFramePixels == Render(capturedFrame)

\* The SimpleImage a state's image stands for, pixels included.  The two
\* 320x240 rasters of the program are painted once.
Raster(s) ==
  IF s = testImage THEN testImagePixels
  ELSE IF s = capturedFrame THEN capturedFramePixels
  ELSE Render(s)

\* Rasters of up to WindowSize + MaxExtra pixels a side
MaxExtra == 15

RasterDims ==
  { <<WindowSize - 1, WindowSize + MaxExtra>>, <<WindowSize + MaxExtra, WindowSize - 1>>,
    <<WindowSize, WindowSize>>, <<WindowSize, WindowSize + MaxExtra>>,
    <<WindowSize + 1, WindowSize + 1>>, <<WindowSize + MaxExtra, WindowSize + 1>>,
    <<WindowSize + MaxExtra, WindowSize + MaxExtra>> }

\* a 60x60 block at offset 0 or 5 on a black or grey background, or no block
DetectorInputs ==
  {testImage}
  \cup { [kind |-> "blank", width |-> d[1], height |-> d[2], bg |-> bg] :
           d \in RasterDims, bg \in {Black, Grey, Skin} }
  \cup { Block(kind, d[1], d[2], bg, bx, by, WindowSize, WindowSize) :
           kind \in {"solid", "noisy", "corner"}, d \in RasterDims, bg \in {Black, Grey},
           bx \in {0, 5}, by \in {0, 5} }

----------------------------------------------------------------------------
(* detectFaces applied to a raster *)

\* no window scanned yet, getSkinToneFeature not called yet
NoScan == [windows |-> 0, skinPixels |-> 0, totalPixels |-> 0]
NoTone == [rSum |-> 0, gSum |-> 0, bSum |-> 0, pixelCount |-> 0]

Idle ==
  /\ isInitialized = FALSE /\ faces = <<>> /\ results = <<>> /\ features = <<>>
  /\ maleScore = 0 /\ edges = [edgeCount |-> 0, totalPixels |-> 0] /\ choice = 0
  /\ i = 0 /\ printed = <<>> /\ reads = {} /\ out = <<>>
  /\ scan = NoScan /\ tone = NoTone

InitDetect ==
  /\ pc = "input"
  /\ image \in DetectorInputs
  /\ Idle

ApplyDetect ==
  /\ pc = "input"
  /\ faces' = detectFaces(Raster(image))
  /\ pc' = "output"
  /\ UNCHANGED <<scan, tone, isInitialized, image, results, features, maleScore, edges,
                 choice, i, printed, reads, out>>

NextDetect == ApplyDetect

SpecDetect == InitDetect /\ [][NextDetect]_vars

----------------------------------------------------------------------------
(* Properties of detectFaces *)

\* the scene has a block of at least 60x60 pixels that lies inside the raster
ContainsBlock(s) ==
  /\ s.kind \in {"solid", "noisy", "corner"}
  /\ s.bw >= 60 /\ s.bh >= 60
  /\ s.bx + s.bw <= s.width /\ s.by + s.bh <= s.height

BlockRect(s) == FaceRect(s.bx, s.by, s.bw, s.bh)

AllSkin(img, rect) ==
  \A x \in rect.x..(rect.x + rect.width - 1), y \in rect.y..(rect.y + rect.height - 1) :
    isSkinColor(getPixel(img, x, y))

\* the variance of the integer intensities over rect exceeds 100
VarianceAbove100(img, rect) ==
  IntensityVariance(Intensities(img, rect)) > 10000

InsideBlock(f, s) ==
  /\ f.x >= s.bx /\ f.x + f.width <= s.bx + s.bw
  /\ f.y >= s.by /\ f.y + f.height <= s.by + s.bh

\* f has pixels of the block and pixels of the background
Straddles(f, s) ==
  /\ f.x < s.bx + s.bw /\ s.bx < f.x + f.width
  /\ f.y < s.by + s.bh /\ s.by < f.y + f.height
  /\ ~InsideBlock(f, s)

Returned(x, y) == \E k \in 1..Len(faces) : faces[k].x = x /\ faces[k].y = y

C3_NoisyBlockReturned ==
  (/\ pc = "output"
   /\ ContainsBlock(image)
   /\ AllSkin(Raster(image), BlockRect(image))
   /\ VarianceAbove100(Raster(image), BlockRect(image))) => Len(faces) >= 1

\* the window positions the detector looks at
ScannedWindows(img) ==
  { FaceRect(x, y, WindowSize, WindowSize) :
      x \in {v \in 0..(img.width - WindowSize - 1) : v % WindowStep = 0},
      y \in {v \in 0..(img.height - WindowSize - 1) : v % WindowStep = 0} }

\* C3, amended: a 60x60 window at x and y multiples of 10 with x + 60 < width and
\* y + 60 < height whose pixels are all skin and whose intensity variance exceeds
\* 100 is returned by detectFaces.
C3_NoisyWindowReturned ==
  pc = "output" =>
    \A f \in ScannedWindows(image) :
      (AllSkin(Raster(image), f) /\ VarianceAbove100(Raster(image), f)) => Returned(f.x, f.y)

\* a noisy block that fills the window at (0, 0), which is returned
C3_Witness ==
  /\ pc = "output" /\ image.kind = "noisy" /\ ContainsBlock(image)
  /\ FaceRect(0, 0, WindowSize, WindowSize) \in ScannedWindows(image)
  /\ AllSkin(Raster(image), FaceRect(0, 0, WindowSize, WindowSize))
  /\ VarianceAbove100(Raster(image), FaceRect(0, 0, WindowSize, WindowSize))
  /\ Returned(0, 0)

\* C10 as claimed: no candidate below 60x60; a 60x60 raster whose one window
\* passes the skin test and the variation test yields a candidate; every
\* candidate is a 60x60 window at multiples of 10 that fits in the raster.
C10_MinimumRaster ==
  pc = "output" =>
    /\ (image.width < 60 \/ image.height < 60) => faces = <<>>
    /\ (/\ image.width = 60 /\ image.height = 60
        /\ hasSkinColor(Raster(image), 0, 0, 60, 60)
        /\ VarianceAbove100(Raster(image), FaceRect(0, 0, 60, 60))) => Len(faces) >= 1
    /\ \A k \in 1..Len(faces) :
         /\ faces[k].width = 60 /\ faces[k].height = 60
         /\ faces[k].x % 10 = 0 /\ faces[k].y % 10 = 0
         /\ faces[k].x + 60 <= image.width /\ faces[k].y + 60 <= image.height

\* what the code does instead: nothing is returned unless both sides exceed 60
C10_NoCandidateUpTo60 ==
  (pc = "output" /\ (image.width <= 60 \/ image.height <= 60)) => faces = <<>>

----------------------------------------------------------------------------
(* calculateMaleScore and the labelling of classifyGender applied to a vector *)

\* A vector of up to MaxFeatureLen doubles
MaxFeatureLen == 5

Far == 10000000      \* a value far outside every feature's range

BrightnessSamples == {Num(-Far), Num(5000), Num(12000), Num(12500), Num(Far)}
VarianceSamples == {Num(-Far), Num(5000), Num(20000), Num(21000), Num(Far)}
EdgeSamples == {Num(-Far), Num(10), Num(30), Num(35), Num(Far)}
SkinToneSamples == {Num(-Far), Num(-20), Num(10), Num(15), Num(Far), NaN}

FourFeatures ==
  { <<b, v, e, t>> : b \in BrightnessSamples, v \in VarianceSamples,
                     e \in EdgeSamples, t \in SkinToneSamples }

FeatureVectors ==
  { SubSeq(f, 1, n) : f \in FourFeatures, n \in 0..4 }
  \cup { f \o [k \in 1..n |-> Num(Far)] : f \in FourFeatures, n \in 1..(MaxFeatureLen - 4) }

InitClassify ==
  /\ pc = "input"
  /\ image = emptyImage
  /\ isInitialized = FALSE /\ faces = <<>> /\ results = <<>>
  /\ features \in FeatureVectors
  /\ maleScore = 0 /\ edges = [edgeCount |-> 0, totalPixels |-> 0] /\ choice = 0
  /\ i = 0 /\ printed = <<>> /\ reads = {} /\ out = <<>>
  /\ scan = NoScan /\ tone = NoTone

\* lines 177-188 of classifyGender
ApplyClassify ==
  /\ pc = "input"
  /\ maleScore' = calculateMaleScore(features)
  /\ results' = <<GenderResult(maleScore')>>
  /\ pc' = "output"
  /\ UNCHANGED <<scan, tone, isInitialized, image, faces, features, edges, choice, i, printed, reads, out>>

NextClassify == ApplyClassify

SpecClassify == InitClassify /\ [][NextClassify]_vars

\* [v > t] for a double v and a threshold t in hundredths
Exceeds(v, t) == IF ~v.nan /\ v.v > t THEN 1 ELSE 0

\* min(1, 0.5 + 0.1 [brightness > 120] + 0.15 [variance > 200]
\*             + 0.2 [edgeDensity > 0.3] + 0.1 [skinTone > 0.1]), in hundredths
ScoreFormula(f) ==
  Min(100, 50 + 10 * Exceeds(f[1], 12000) + 15 * Exceeds(f[2], 20000)
              + 20 * Exceeds(f[3], 30) + 10 * Exceeds(f[4], 10))

\* C1: for a 4-element vector the score is the formula; the label is "Male" with
\* confidence = score when score > 0.5, else "Female" with confidence 1 - score;
\* [125, 210, 0.35, 0.15] gives Male 1.0 and [50, 50, 0.1, -0.2] gives Female 0.5.
C1_ScoreAndLabel ==
  (pc = "output" /\ Len(features) = 4) =>
     /\ maleScore = ScoreFormula(features)
     /\ maleScore > 50 => results[1] = [gender |-> "Male", confidence |-> maleScore]
     /\ maleScore <= 50 => results[1] = [gender |-> "Female", confidence |-> 100 - maleScore]
     /\ features = <<Num(12500), Num(21000), Num(35), Num(15)>>
          => results[1] = [gender |-> "Male", confidence |-> 100]
     /\ features = <<Num(5000), Num(5000), Num(10), Num(-20)>>
          => results[1] = [gender |-> "Female", confidence |-> 50]

C1_Witness ==
  /\ pc = "output"
  /\ features = <<Num(12500), Num(21000), Num(35), Num(15)>>
  /\ maleScore = 100
  /\ results[1].gender = "Male"

Finite(f) == \A k \in 1..Len(f) : ~f[k].nan

\* C4: the score of every finite 4-element vector, however far its features are
\* outside their ranges, lies in [0, 1], and so does the result's confidence.
C4_ScoreInUnitInterval ==
  (pc = "output" /\ Len(features) = 4 /\ Finite(features)) =>
     /\ 0 <= maleScore /\ maleScore <= 100
     /\ 0 <= results[1].confidence /\ results[1].confidence <= 100

\* all four features far above their thresholds: the sum 1.05 is clamped to 1
C4_Witness ==
  /\ pc = "output"
  /\ features = <<Num(Far), Num(Far), Num(Far), Num(Far)>>
  /\ maleScore = 100

\* C5 as claimed: a vector of any length other than 4 gets the fallback.
C5_FallbackUnlessExactlyFour ==
  (pc = "output" /\ Len(features) # 4) =>
     /\ maleScore = 50
     /\ results[1].gender = "Female"

\* C5, amended: a vector of fewer than 4 elements gets the fallback (score 0.5,
\* "Female", confidence 0.5); a vector of 4 or more elements is scored by the
\* thresholds on its first four elements, the others being ignored.
C5_FallbackBelowFour ==
  pc = "output" =>
     /\ Len(features) < 4 =>
          maleScore = 50 /\ results[1] = [gender |-> "Female", confidence |-> 50]
     /\ Len(features) >= 4 => maleScore = ScoreFormula(SubSeq(features, 1, 4))

\* a vector of 5 elements that is scored, not given the fallback
C5_Witness ==
  /\ pc = "output"
  /\ Len(features) = 5
  /\ maleScore = 100
  /\ results[1].gender = "Male"

----------------------------------------------------------------------------
(* getEdgeDensity applied to a region of a small raster *)

\* Rasters of up to MaxEdgeDim pixels a side
MaxEdgeDim == 4

\* one grey pixel on black; 2 * 20 > 30 >= 20, and 30 is not above 30
EdgeInputs ==
  { [kind |-> "dot", width |-> w, height |-> h, bx |-> x, by |-> y, level |-> l] :
      w \in 1..MaxEdgeDim, h \in 1..MaxEdgeDim,
      x \in 0..(MaxEdgeDim - 1), y \in 0..(MaxEdgeDim - 1), l \in {20, 90} }

\* regions that start inside the raster and run at most one pixel past it
EdgeRegions(s) ==
  { FaceRect(x, y, w, h) :
      x \in 0..(s.width - 1), y \in 0..(s.height - 1),
      w \in 1..(MaxEdgeDim + 1), h \in 1..(MaxEdgeDim + 1) }

InitEdge ==
  /\ pc = "input"
  /\ image \in {s \in EdgeInputs : s.bx < s.width /\ s.by < s.height}
  /\ faces \in { <<r>> : r \in {q \in EdgeRegions(image) :
                                  q.x + q.width <= image.width + 1
                                  /\ q.y + q.height <= image.height + 1} }
  /\ isInitialized = FALSE /\ results = <<>> /\ features = <<>>
  /\ maleScore = 0 /\ edges = [edgeCount |-> 0, totalPixels |-> 0] /\ choice = 0
  /\ i = 0 /\ printed = <<>> /\ reads = {} /\ out = <<>>
  /\ scan = NoScan /\ tone = NoTone

ApplyEdge ==
  /\ pc = "input"
  /\ edges' = edgeCounts(Raster(image), faces[1])
  /\ features' = <<getEdgeDensity(Raster(image), faces[1])>>
  /\ pc' = "output"
  /\ UNCHANGED <<scan, tone, isInitialized, image, faces, results, maleScore, choice, i, printed, reads, out>>

NextEdge == ApplyEdge

SpecEdge == InitEdge /\ [][NextEdge]_vars

Inside(rect, s) ==
  rect.x + rect.width <= s.width /\ rect.y + rect.height <= s.height

\* the pixels (x, y) of xs \X ys whose gradient exceeds 30
EdgePixels(img, xs, ys) ==
  {c \in xs \X ys : gradient(img, c[1], c[2]) > 30}

\* C9 as claimed: every pixel but those of the last row and the last column is
\* evaluated, (w-1)*(h-1) of them.
C9_AllButLastRowAndColumn ==
  (pc = "output" /\ Inside(faces[1], image)) =>
     LET r == faces[1]
         xs == r.x..(r.x + r.width - 2)
         ys == r.y..(r.y + r.height - 2)
     IN /\ edges.totalPixels = (r.width - 1) * (r.height - 1)
        /\ edges.edgeCount = Cardinality(EdgePixels(Raster(image), xs, ys))

\* C9, amended: for a region of width w and height h inside the raster,
\* getEdgeDensity evaluates the pixels that are in neither the first nor the
\* last row or column, max(w-2,0) * max(h-2,0) of them, and returns the fraction
\* of them with |I(x,y) - I(x+1,y)| + |I(x,y) - I(x,y+1)| > 30 (0 when there is none).
C9_InteriorOnly ==
  (pc = "output" /\ Inside(faces[1], image)) =>
     LET r == faces[1]
         xs == (r.x + 1)..(r.x + r.width - 2)
         ys == (r.y + 1)..(r.y + r.height - 2)
         n == Max(r.width - 2, 0) * Max(r.height - 2, 0)
         e == Cardinality(EdgePixels(Raster(image), xs, ys))
     IN /\ edges.totalPixels = n
        /\ edges.edgeCount = e
        /\ features[1] = IF n > 0 THEN Num(CeilDiv(100 * e, n)) ELSE Num(0)

\* a 4x4 region whose first row holds an edge pixel that is not counted and
\* whose interior holds one that is
C9_Witness ==
  /\ pc = "output" /\ Inside(faces[1], image)
  /\ faces[1].width >= 3 /\ faces[1].height >= 3
  /\ edges.edgeCount > 0
  /\ edges.edgeCount <
       Cardinality(EdgePixels(Raster(image),
                              faces[1].x..(faces[1].x + faces[1].width - 2),
                              faces[1].y..(faces[1].y + faces[1].height - 2)))

----------------------------------------------------------------------------
(* class CameraCapture *)

\* captureFrame: grabbed says whether capGrabFrame succeeded
captureFrame(initialized, grabbed) ==
  IF ~initialized THEN emptyImage
  ELSE IF grabbed THEN capturedFrame
  ELSE emptyImage

----------------------------------------------------------------------------
(* ConsoleDisplay::displayResults, one loop iteration a step *)

\* the loop of displayResults runs while this holds
displayLoopGuard_FacesOnly(k, nFaces, nResults) == k < nFaces

displayLoopGuard(k, nFaces, nResults) == k < nFaces /\ k < nResults

\* system("cls") and the header lines
DisplayBegin ==
  /\ pc = "display"
  /\ i' = 0
  /\ printed' = <<>>
  /\ reads' = {}
  /\ out' = Append(out, "Faces detected:")
  /\ pc' = "display_loop"
  /\ UNCHANGED <<scan, tone, isInitialized, image, faces, results, features, maleScore, edges, choice>>

\* the loop body: faces[i] and results[i] are read, the block "Face i+1" is printed
DisplayFace ==
  /\ pc = "display_loop"
  /\ displayLoopGuard(i, Len(faces), Len(results))
  /\ reads' = reads \cup {i}
  /\ printed' = Append(printed, i)
  /\ i' = i + 1
  /\ UNCHANGED <<scan, tone, pc, isInitialized, image, faces, results, features, maleScore, edges, choice, out>>

\* the loop ends; the tips are printed when faces is empty
DisplayEnd ==
  /\ pc = "display_loop"
  /\ ~displayLoopGuard(i, Len(faces), Len(results))
  /\ out' = IF Len(faces) = 0 THEN Append(out, "No faces detected in the image.") ELSE out
  /\ pc' = "displayed"
  /\ UNCHANGED <<scan, tone, isInitialized, image, faces, results, features, maleScore, edges,
                 choice, i, printed, reads>>

\* Lists of up to MaxFaces elements
MaxFaces == 5

someFaces(n) == [k \in 1..n |-> FaceRect(10 * (k - 1), 0, WindowSize, WindowSize)]
someResults(n) == [k \in 1..n |-> GenderResult(50 + 10 * (k % 2))]

InitDisplay ==
  /\ pc = "display"
  /\ image = emptyImage
  /\ faces \in {someFaces(n) : n \in 0..MaxFaces}
  /\ results \in {someResults(n) : n \in 0..MaxFaces}
  /\ isInitialized = FALSE /\ features = <<>>
  /\ maleScore = 0 /\ edges = [edgeCount |-> 0, totalPixels |-> 0] /\ choice = 0
  /\ i = 0 /\ printed = <<>> /\ reads = {} /\ out = <<>>
  /\ scan = NoScan /\ tone = NoTone

NextDisplay == DisplayBegin \/ DisplayFace \/ DisplayEnd

SpecDisplay == InitDisplay /\ [][NextDisplay]_vars

\* C6: displayResults prints a block for exactly the indices 0 .. min(|faces|,
\* |results|) - 1 and applies no subscript that either list lacks.
C6_DisplayUpToShorter ==
  /\ \A k \in reads : 0 <= k /\ k < Len(faces) /\ k < Len(results)
  /\ pc = "displayed" =>
       printed = [k \in 1..Min(Len(faces), Len(results)) |-> k - 1]

\* lists of different lengths, both non-empty, displayed to the end
C6_Witness ==
  /\ pc = "displayed"
  /\ Len(faces) > Len(results) /\ Len(results) > 0
  /\ Len(printed) = Len(results)

----------------------------------------------------------------------------
(* main *)

\* The values cin >> choice can leave in choice: 0 .. MaxChoice
MaxChoice == 4

\* the if of case 1: where the program goes with the captured image
afterCapture_ReturnOnFailure(img) ==
  IF img.width > 0 /\ img.height > 0 THEN "detect" ELSE "exited"

afterCapture(img) ==
  IF img.width > 0 /\ img.height > 0 THEN "detect" ELSE "after_switch"

\* the condition of the do-while loop
loopCondition_LessThan(c) == c < 3

loopCondition(c) == c # 3

Init ==
  /\ pc = "main"
  /\ isInitialized = FALSE
  /\ image = emptyImage
  /\ faces = <<>> /\ results = <<>> /\ features = <<>>
  /\ maleScore = 0 /\ edges = [edgeCount |-> 0, totalPixels |-> 0] /\ choice = 0
  /\ i = 0 /\ printed = <<>> /\ reads = {} /\ out = <<>>
  /\ scan = NoScan /\ tone = NoTone

\* camera.initialize() fails: test mode, with the test image
InitializeFails ==
  /\ pc = "main"
  /\ out' = <<"Camera initialization failed. Using test mode.", "Processing test image...">>
  /\ image' = testImage
  /\ pc' = "detect"
  /\ UNCHANGED <<scan, tone, isInitialized, faces, results, features, maleScore, edges, choice, i, printed, reads>>

\* camera.initialize() succeeds: the menu loop
InitializeSucceeds ==
  /\ pc = "main"
  /\ isInitialized' = TRUE
  /\ out' = <<"Camera initialized successfully!">>
  /\ pc' = "menu"
  /\ UNCHANGED <<scan, tone, image, faces, results, features, maleScore, edges, choice, i, printed, reads>>

\* faces = faceDetector.detectFaces(image)
Detect ==
  /\ pc = "detect"
  /\ faces' = detectFaces(Raster(image))
  /\ results' = <<>>
  /\ pc' = "classify"
  /\ UNCHANGED <<scan, tone, isInitialized, image, features, maleScore, edges, choice, i, printed, reads, out>>

\* for (face : faces) results.push_back(classifyGender(image, face)), one face a step
Classify ==
  /\ pc = "classify"
  /\ Len(results) < Len(faces)
  /\ results' = Append(results, classifyGender(Raster(image), faces[Len(results) + 1]))
  /\ UNCHANGED <<scan, tone, pc, isInitialized, image, faces, features, maleScore, edges, choice, i, printed, reads, out>>

ClassifyEnd ==
  /\ pc = "classify"
  /\ Len(results) >= Len(faces)
  /\ pc' = "display"
  /\ UNCHANGED <<scan, tone, isInitialized, image, faces, results, features, maleScore, edges, choice, i, printed, reads, out>>

\* test mode after displayResults: the prompt, cin.get(), return 0
TestModeReturn ==
  /\ pc = "displayed" /\ ~isInitialized
  /\ out' = Append(out, "Press any key to continue...")
  /\ pc' = "returned"
  /\ UNCHANGED <<scan, tone, isInitialized, image, faces, results, features, maleScore, edges, choice, i, printed, reads>>

\* displayMenu(); cin >> choice.  The console lines kept in out are those of
\* the current iteration.
Menu ==
  /\ pc = "menu"
  /\ \E c \in 0..MaxChoice : choice' = c
  /\ out' = <<"Enter your choice: ">>
  /\ printed' = <<>> /\ reads' = {} /\ i' = 0
  /\ pc' = "switch"
  /\ UNCHANGED <<scan, tone, isInitialized, image, faces, results, features, maleScore, edges>>

\* case 1: captureFrame, then the if on the image's size
Case1Capture ==
  /\ pc = "switch" /\ choice = 1
  /\ \E grabbed \in BOOLEAN :
       /\ image' = captureFrame(isInitialized, grabbed)
       /\ out' = out \o <<"Capturing photo...",
                          IF image'.width > 0 /\ image'.height > 0
                          THEN "Processing image..." ELSE "Failed to capture image!">>
       /\ pc' = afterCapture(image')
  /\ UNCHANGED <<scan, tone, isInitialized, faces, results, features, maleScore, edges, choice, i, printed, reads>>

\* case 1 after displayResults: break; image, faces and results go out of scope
Case1Break ==
  /\ pc = "displayed" /\ isInitialized
  /\ image' = emptyImage /\ faces' = <<>> /\ results' = <<>>
  /\ pc' = "after_switch"
  /\ UNCHANGED <<scan, tone, isInitialized, features, maleScore, edges, choice, i, printed, reads, out>>

Case2 ==
  /\ pc = "switch" /\ choice = 2
  /\ out' = Append(out, "File loading not implemented in this basic version.")
  /\ pc' = "after_switch"
  /\ UNCHANGED <<scan, tone, isInitialized, image, faces, results, features, maleScore, edges, choice, i, printed, reads>>

Case3 ==
  /\ pc = "switch" /\ choice = 3
  /\ out' = Append(out, "Exiting...")
  /\ pc' = "after_switch"
  /\ UNCHANGED <<scan, tone, isInitialized, image, faces, results, features, maleScore, edges, choice, i, printed, reads>>

CaseDefault ==
  /\ pc = "switch" /\ choice \notin {1, 2, 3}
  /\ out' = Append(out, "Invalid choice. Please try again.")
  /\ pc' = "after_switch"
  /\ UNCHANGED <<scan, tone, isInitialized, image, faces, results, features, maleScore, edges, choice, i, printed, reads>>

\* if (choice != 3) { prompt; cin.ignore(); cin.get(); }
Pause ==
  /\ pc = "after_switch"
  /\ out' = IF choice # 3 THEN Append(out, "Press Enter to continue...") ELSE out
  /\ pc' = "loop_test"
  /\ UNCHANGED <<scan, tone, isInitialized, image, faces, results, features, maleScore, edges, choice, i, printed, reads>>

\* while (choice != 3): back to the menu
LoopAgain ==
  /\ pc = "loop_test"
  /\ loopCondition(choice)
  /\ pc' = "menu"
  /\ UNCHANGED <<scan, tone, isInitialized, image, faces, results, features, maleScore, edges, choice, i, printed, reads, out>>

\* the loop ends: return 0
LoopExit ==
  /\ pc = "loop_test"
  /\ ~loopCondition(choice)
  /\ pc' = "exited"
  /\ UNCHANGED <<scan, tone, isInitialized, image, faces, results, features, maleScore, edges, choice, i, printed, reads, out>>

Next ==
  \/ InitializeFails \/ InitializeSucceeds
  \/ Detect \/ Classify \/ ClassifyEnd
  \/ DisplayBegin \/ DisplayFace \/ DisplayEnd
  \/ TestModeReturn
  \/ Menu \/ Case1Capture \/ Case1Break \/ Case2 \/ Case3 \/ CaseDefault
  \/ Pause \/ LoopAgain \/ LoopExit

Spec == Init /\ [][Next]_vars

----------------------------------------------------------------------------
(* Properties of the menu loop *)

Wrote(line) == \E k \in 1..Len(out) : out[k] = line

CaptureFailed == Wrote("Failed to capture image!")

\* C7 as claimed: after a failed capture the menu is not shown again.
C7_FailedCaptureEndsLoop == CaptureFailed => pc # "menu"

\* C7, amended: a failed capture (an empty raster after choice 1) writes
\* "Failed to capture image!", runs no detection, classification or display, and
\* does not end the loop: the program goes on to the prompt and the loop test,
\* and from the loop test back to the menu.
C7_FailedCaptureContinues ==
  /\ [](CaptureFailed =>
          /\ choice = 1 /\ image = emptyImage
          /\ faces = <<>> /\ results = <<>> /\ printed = <<>>
          /\ pc \in {"after_switch", "loop_test", "menu"})
  /\ [][(CaptureFailed /\ pc = "after_switch") => pc' = "loop_test"]_vars
  /\ [][(CaptureFailed /\ pc = "loop_test") => pc' = "menu"]_vars

\* back at the menu after a failed capture
C7_Witness == pc = "menu" /\ CaptureFailed /\ choice = 1

Refused ==
  \/ Wrote("File loading not implemented in this basic version.")
  \/ Wrote("Invalid choice. Please try again.")

\* C8: choice 2 and an invalid choice write their message, run no detection or
\* classification and return to the menu; the loop ends and main returns 0 exactly
\* when 3 is entered, and once 3 is entered the menu is not displayed again.
C8_MenuLoop ==
  /\ []((pc = "after_switch" /\ choice = 2) =>
          Wrote("File loading not implemented in this basic version."))
  /\ []((pc = "after_switch" /\ choice \notin {1, 2, 3}) =>
          Wrote("Invalid choice. Please try again."))
  /\ [](Refused =>
          /\ choice \notin {1, 3}
          /\ image = emptyImage /\ faces = <<>> /\ results = <<>> /\ printed = <<>>
          /\ pc \in {"after_switch", "loop_test", "menu"})
  /\ [][(pc = "switch" /\ choice \notin {1, 3}) =>
          (pc' = "after_switch" /\ UNCHANGED <<image, faces, results, printed>>)]_vars
  /\ [][pc = "loop_test" => pc' = IF choice = 3 THEN "exited" ELSE "menu"]_vars
  /\ [][pc' = "exited" => (pc = "loop_test" /\ choice = 3)]_vars
  /\ [](pc = "exited" => choice = 3)
  /\ [](choice = 3 => pc \in {"switch", "after_switch", "loop_test", "exited"})
  /\ [][pc # "exited"]_vars

\* back at the menu after choice 2
C8_Witness ==
  /\ pc = "menu" /\ choice = 2
  /\ Wrote("File loading not implemented in this basic version.")

----------------------------------------------------------------------------
(* detectFaces, then classifyGender on every face it returned *)

\* the test image of main, the square rasters among the detector's inputs, and
\* square rasters on which one pixel in three or four is skin-coloured and the
\* others are black or grey
PipelineInputs ==
  {s \in DetectorInputs : s = testImage \/ s.width = s.height}
  \cup { [kind |-> "sparse", width |-> d[1], height |-> d[2], bg |-> bg, fg |-> fg,
          every |-> n] :
           d \in {q \in RasterDims : q[1] = q[2]}, bg \in {Black, Grey},
           fg \in {Skin, SkinDim}, n \in {3, 4} }

InitPipeline ==
  /\ pc = "scan"
  /\ image \in PipelineInputs
  /\ Idle

\* one turn of the inner loop of findFaceCandidates: hasSkinColor on the next window
ScanWindow ==
  /\ pc = "scan"
  /\ scan.windows < Len(Windows(image))
  /\ LET w == Windows(image)[scan.windows + 1]
         c == skinCounts(Raster(image), w.x, w.y, WindowSize, WindowSize)
     IN /\ scan' = [windows |-> scan.windows + 1,
                    skinPixels |-> c.skinPixels, totalPixels |-> c.totalPixels]
        /\ faces' = IF skinFractionAbove30(c) THEN Append(faces, w) ELSE faces
  /\ UNCHANGED <<tone, pc, isInitialized, image, results, features, maleScore, edges,
                 choice, i, printed, reads, out>>

\* the loops of findFaceCandidates end; detectFaces keeps the candidates that
\* isLikelyFace accepts and returns them
FilterCandidates ==
  /\ pc = "scan"
  /\ scan.windows >= Len(Windows(image))
  /\ LET img == Raster(image)
     IN faces' = SelectSeq(faces, LAMBDA c : isLikelyFace(img, c))
  /\ pc' = "classify"
  /\ UNCHANGED <<scan, tone, isInitialized, image, results, features, maleScore, edges,
                 choice, i, printed, reads, out>>

\* classifyGender(image, face) for the next face of the list
ClassifyFace ==
  /\ pc = "classify"
  /\ Len(results) < Len(faces)
  /\ LET img == Raster(image)
         face == faces[Len(results) + 1]
     IN /\ features' = extractFeatures(img, face)
        /\ tone' = toneSums(img, face)
  /\ maleScore' = calculateMaleScore(features')
  /\ results' = Append(results, GenderResult(maleScore'))
  /\ UNCHANGED <<scan, pc, isInitialized, image, faces, edges, choice, i, printed, reads, out>>

NextPipeline == ScanWindow \/ FilterCandidates \/ ClassifyFace

SpecPipeline == InitPipeline /\ [][NextPipeline]_vars

\* C11: no division by zero in detect-then-classify, whatever the raster.  Every
\* call of hasSkinColor counts exactly 3600 pixels; every candidate has a
\* positive height for the aspect ratio; and for every face detectFaces returned,
\* getSkinToneFeature divides by a positive pixelCount and a positive
\* avgR + avgG + avgB, so the four features handed to calculateMaleScore are
\* finite.
C11_NoDivisionByZero ==
  /\ scan.windows > 0 => scan.totalPixels = WindowSize * WindowSize
  /\ \A k \in 1..Len(faces) : faces[k].height > 0
  /\ (pc = "classify" /\ Len(results) > 0) =>
       /\ tone.pixelCount > 0
       /\ tone.rSum + tone.gSum + tone.bSum > 0
       /\ Len(features) = 4 /\ Finite(features)

\* a raster on which only one pixel in three is skin-coloured, and that of the
\* darkest skin colour, on black: its windows are scanned, returned and
\* classified
C11_Witness ==
  /\ pc = "classify" /\ Len(results) > 0
  /\ image.kind = "sparse" /\ image.bg = Black /\ image.fg = SkinDim
  /\ scan.windows > 0 /\ scan.totalPixels = 3600
  /\ 10 * scan.skinPixels <= 4 * scan.totalPixels
  /\ tone.rSum + tone.gSum + tone.bSum > 0
  /\ Finite(features)

====
